---------------------------- MODULE Spec2Model ----------------------------
(***************************************************************************)
(* Model of two parts of InstrumentKit:                                    *)
(*   - ThorLabsInstrument.sendpacket / querypacket                         *)
(*     (instruments/thorlabs/_abstract.py): the request/response loop of   *)
(*     the APT packet protocol over a raw byte transport;                  *)
(*   - PerpendicularAC (abstract_instruments/axis/perp_ac.py): the         *)
(*     composite of a major and a minor axis collection.                   *)
(* Python's None is the empty tuple <<>> and a present value x is <<x>>.   *)
(***************************************************************************)
EXTENDS Integers, Sequences, FiniteSets, TLC

VARIABLES
    \* ---- packet protocol engine ----
    pc,          \* "Idle", "Sending", "AwaitingResponse" or "Done"
    op,          \* the method called: "none", "sendpacket", "querypacket"
    packet,      \* the packet argument
    expect,      \* the expect argument: <<>> (None) or <<id>>
    timeout,     \* the local variable timeout (after line 75)
    timeoutArg,  \* the timeout argument as the caller gave it
    t_start,     \* time.time() at line 72
    clock,       \* the wall clock, in seconds
    resp,        \* the bytes of the last read_raw()
    io,          \* the transport calls made by the current method, in order
    result,      \* what the method gave its caller
    \* ---- composite axis collection ----
    major_axes,     \* self._major_axes: the major sub-collection
    minor_axes,     \* self._minor_axes: the minor sub-collection
    n_major_axes,   \* self._n_major_axes
    n_minor_axes,   \* self._n_minor_axes
    calls,          \* the commands the sub-collections received and the
                    \* notifications fired in the last operation, in order
    ret,            \* what the last composite operation gave its caller
    move_history,   \* the number of entries of the composite's move history
    nest            \* three collections joined by two nested composites

engineVars == <<pc, op, packet, expect, timeout, timeoutArg, t_start, clock, resp, io, result>>
axesVars == <<major_axes, minor_axes, n_major_axes, n_minor_axes, calls, ret,
              move_history, nest>>
vars == <<pc, op, packet, expect, timeout, timeoutArg, t_start, clock, resp, io, result,
          major_axes, minor_axes, n_major_axes, n_minor_axes, calls, ret,
          move_history, nest>>

None == <<>>
Some(x) == <<x>>

\* ------------------------------------------------------------------------
\* Bounds of the model
\* ------------------------------------------------------------------------
MaxClock == 3
MaxIO == 6

\* ------------------------------------------------------------------------
\* Packets and their wire format
\* ------------------------------------------------------------------------
MessageIds == {0, 261}
Packets == [message_id : MessageIds, param1 : {7}, param2 : {0}, dest : {80}, source : {1}]

\* ThorLabsPacket.pack(): the six byte header, message id little-endian.
Pack(p) ==
    << p.message_id % 256, (p.message_id \div 256) % 256,
       p.param1 % 256, p.param2 % 256, p.dest % 256, p.source % 256 >>

\* ThorLabsPacket.unpack(bytes)
Unpack(bytes) ==
    [ message_id |-> bytes[1] + 256 * bytes[2],
      param1 |-> bytes[3], param2 |-> bytes[4],
      dest |-> bytes[5], source |-> bytes[6] ]

\* What read_raw() may return: nothing, or one well-formed frame.
Responses == {<<>>} \cup {Pack(p) : p \in Packets}

\* The errors the transport may raise from write_raw / read_raw.
TransportErrors == {"EIO", "EPIPE"}

\* ------------------------------------------------------------------------
\* Timeout values
\* ------------------------------------------------------------------------
\* None, False, a bare number (seconds) or a quantity with a unit.
TimeoutNone == [kind |-> "None", mag |-> 0, unit |-> "-"]
TimeoutFalse == [kind |-> "False", mag |-> 0, unit |-> "-"]
Number(n) == [kind |-> "number", mag |-> n, unit |-> "-"]
Quantity(n, u) == [kind |-> "quantity", mag |-> n, unit |-> u]

TimeoutArgs ==
    {TimeoutNone, TimeoutFalse, Number(0), Number(1), Number(2), Quantity(1000, "ms")}

\* Python truth value of a timeout (line 74: `if timeout:`).
Truthy(t) == t.kind \in {"number", "quantity"} /\ t.mag # 0

\* assume_units(timeout, second).rescale('second').magnitude
Rescale(t) ==
    IF t.kind = "quantity" /\ t.unit = "ms" THEN Number(t.mag \div 1000)
    ELSE Number(t.mag)

\* Normalise without the rescale: the magnitude is taken in whatever unit
\* the caller gave.
Normalise_no_rescale(t) == IF Truthy(t) THEN Number(t.mag) ELSE t

\* Lines 74-75: only a truthy timeout is normalised.
Normalise(t) == IF Truthy(t) THEN Rescale(t) ELSE t

\* The number Python compares against in `tic - t_start > timeout`:
\* False is the integer 0.
AsNumber(t) == IF t.kind = "False" THEN 0 ELSE t.mag

\* LoopBreaks with >= for > in the elapsed-time test.
LoopBreaks_ge(r, t, tic, start) ==
    IF r # <<>> \/ t.kind = "None" THEN TRUE
    ELSE tic - start >= AsNumber(t)

\* LoopBreaks without the `timeout is None` test: None counts as 0 seconds.
LoopBreaks_no_none(r, t, tic, start) ==
    IF r # <<>> THEN TRUE
    ELSE tic - start > AsNumber(t)

\* LoopBreaks without the `if resp` test: a response is only looked at once
\* the time is up.
LoopBreaks_time_only(r, t, tic, start) ==
    IF t.kind = "None" THEN TRUE
    ELSE tic - start > AsNumber(t)

\* Lines 80-85: whether the loop is left after a read that returned r,
\* with tic = time.time() read in the else branch.
LoopBreaks(r, t, tic, start) ==
    IF r # <<>> \/ t.kind = "None" THEN TRUE
    ELSE tic - start > AsNumber(t)

\* ------------------------------------------------------------------------
\* Results
\* ------------------------------------------------------------------------
NoResult ==
    [kind |-> "pending", pkt |-> None, got |-> None, expected |-> None,
     err |-> None, unpacked |-> FALSE]
Returned(p) == [NoResult EXCEPT !.kind = "packet", !.pkt = Some(p), !.unpacked = TRUE]
ReturnedNone == [NoResult EXCEPT !.kind = "None"]
Sent == [NoResult EXCEPT !.kind = "sent"]
\* IOError("Expected packet {}, got nothing instead.".format(expect))
ErrNothing(e) == [NoResult EXCEPT !.kind = "IOError_nothing", !.expected = e]
\* IOError("APT returned message ID {}, expected {}".format(pkt._message_id, expect))
ErrMismatch(id, e) ==
    [NoResult EXCEPT !.kind = "IOError_mismatch", !.got = Some(id), !.expected = e,
                     !.unpacked = TRUE]
\* An exception of the transport, passing through the method.
ErrTransport(e) == [NoResult EXCEPT !.kind = "transport_error", !.err = Some(e)]

\* Resolve testing `if expect and ...` for `if expect is not None and ...`:
\* an expected identifier of 0 is not checked.
Resolve_truthy_check(r, e) ==
    IF r = <<>> THEN
        IF e = None THEN ReturnedNone ELSE ErrNothing(e)
    ELSE
        LET pkt == Unpack(r) IN
        IF e # None /\ e # Some(0) /\ Some(pkt.message_id) # e
        THEN ErrMismatch(pkt.message_id, e)
        ELSE Returned(pkt)

\* Resolve testing `if not expect` for `if expect is None`: an expected
\* identifier of 0 counts as not given.
Resolve_falsy_expect(r, e) ==
    IF r = <<>> THEN
        IF e = None \/ e = Some(0) THEN ReturnedNone ELSE ErrNothing(e)
    ELSE
        LET pkt == Unpack(r) IN
        IF e # None /\ Some(pkt.message_id) # e THEN ErrMismatch(pkt.message_id, e)
        ELSE Returned(pkt)

\* Lines 87-102: what querypacket gives its caller once the loop is left.
Resolve(r, e) ==
    IF r = <<>> THEN
        IF e = None THEN ReturnedNone ELSE ErrNothing(e)
    ELSE
        LET pkt == Unpack(r) IN
        IF e # None /\ Some(pkt.message_id) # e THEN ErrMismatch(pkt.message_id, e)
        ELSE Returned(pkt)

\* One call of write_raw or read_raw: its bytes, whether it returned, the
\* error it raised and the time of the call.
IOCall(o, b, okay, e) == [op |-> o, bytes |-> b, ok |-> okay, err |-> e, at |-> clock]


\* ------------------------------------------------------------------------
\* The composite is untouched while the protocol engine runs, and the
\* engine is untouched while the composite runs.
\* ------------------------------------------------------------------------
EngineIdle ==
    /\ pc = "Idle"
    /\ op = "none"
    /\ packet = None
    /\ expect = None
    /\ timeout = TimeoutNone
    /\ timeoutArg = TimeoutNone
    /\ t_start = 0
    /\ clock = 0
    /\ resp = <<>>
    /\ io = <<>>
    /\ result = NoResult

\* ------------------------------------------------------------------------
\* ThorLabsInstrument
\* ------------------------------------------------------------------------
\* time.time() moves on between any two steps of the program.
Tick ==
    /\ clock < MaxClock
    /\ clock' = clock + 1
    /\ UNCHANGED <<pc, op, packet, expect, timeout, timeoutArg, t_start, resp, io, result>>
    /\ UNCHANGED axesVars

\* sendpacket doing what its docstring says: it waits for one response.
sendpacket_waits(p) ==
    /\ pc = "Idle"
    /\ op' = "sendpacket"
    /\ packet' = p
    /\ io' = io \o << IOCall("write", Pack(p), TRUE, None), IOCall("read", <<>>, TRUE, None) >>
    /\ result' = Sent
    /\ pc' = "Done"
    /\ UNCHANGED <<expect, timeout, timeoutArg, t_start, clock, resp>>
    /\ UNCHANGED axesVars

\* sendpacket(packet), line 43, when write_raw returns.
sendpacket(p) ==
    /\ pc = "Idle"
    /\ op' = "sendpacket"
    /\ packet' = p
    /\ io' = Append(io, IOCall("write", Pack(p), TRUE, None))
    /\ result' = Sent
    /\ pc' = "Done"
    /\ UNCHANGED <<expect, timeout, timeoutArg, t_start, clock, resp>>
    /\ UNCHANGED axesVars

\* sendpacket(packet), line 43, when write_raw raises e.
sendpacket_raises(p, e) ==
    /\ pc = "Idle"
    /\ op' = "sendpacket"
    /\ packet' = p
    /\ io' = Append(io, IOCall("write", Pack(p), FALSE, Some(e)))
    /\ result' = ErrTransport(e)
    /\ pc' = "Done"
    /\ UNCHANGED <<expect, timeout, timeoutArg, t_start, clock, resp>>
    /\ UNCHANGED axesVars

\* querypacket(packet, expect, timeout), lines 72-75: up to the loop.
querypacket(p, e, t) ==
    /\ pc = "Idle"
    /\ op' = "querypacket"
    /\ packet' = p
    /\ expect' = e
    /\ timeoutArg' = t
    /\ t_start' = clock
    /\ timeout' = Normalise(t)
    /\ pc' = "Sending"
    /\ UNCHANGED <<clock, resp, io, result>>
    /\ UNCHANGED axesVars

\* Line 78: self._file.write_raw(packet.pack()) returns.
write_raw ==
    /\ pc = "Sending"
    /\ Len(io) < MaxIO
    /\ io' = Append(io, IOCall("write", Pack(packet), TRUE, None))
    /\ pc' = "AwaitingResponse"
    /\ UNCHANGED <<op, packet, expect, timeout, timeoutArg, t_start, clock, resp, result>>
    /\ UNCHANGED axesVars

\* Line 78: write_raw raises e, which leaves querypacket.
write_raw_raises(e) ==
    /\ pc = "Sending"
    /\ Len(io) < MaxIO
    /\ io' = Append(io, IOCall("write", Pack(packet), FALSE, Some(e)))
    /\ result' = ErrTransport(e)
    /\ pc' = "Done"
    /\ UNCHANGED <<op, packet, expect, timeout, timeoutArg, t_start, clock, resp>>
    /\ UNCHANGED axesVars

\* read_raw with the write outside the loop: after an empty read the loop
\* reads again without sending the request again.
read_raw_polls(r) ==
    /\ pc = "AwaitingResponse"
    /\ Len(io) < MaxIO
    /\ io' = Append(io, IOCall("read", r, TRUE, None))
    /\ resp' = r
    /\ IF LoopBreaks(r, timeout, clock, t_start)
       THEN /\ result' = Resolve(r, expect)
            /\ pc' = "Done"
       ELSE /\ pc' = "AwaitingResponse"
            /\ UNCHANGED result
    /\ UNCHANGED <<op, packet, expect, timeout, timeoutArg, t_start, clock>>
    /\ UNCHANGED axesVars

\* Lines 79-102: read_raw() returns r; the loop is left or goes round,
\* and once it is left the response is resolved.
read_raw(r) ==
    /\ pc = "AwaitingResponse"
    /\ io' = Append(io, IOCall("read", r, TRUE, None))
    /\ resp' = r
    /\ IF LoopBreaks(r, timeout, clock, t_start)
       THEN /\ result' = Resolve(r, expect)
            /\ pc' = "Done"
       ELSE /\ pc' = "Sending"
            /\ UNCHANGED result
    /\ UNCHANGED <<op, packet, expect, timeout, timeoutArg, t_start, clock>>
    /\ UNCHANGED axesVars

\* read_raw_raises with the error caught and taken for an empty read.
read_raw_swallows(e) ==
    /\ pc = "AwaitingResponse"
    /\ io' = Append(io, IOCall("read", <<>>, FALSE, Some(e)))
    /\ resp' = <<>>
    /\ IF LoopBreaks(<<>>, timeout, clock, t_start)
       THEN /\ result' = Resolve(<<>>, expect)
            /\ pc' = "Done"
       ELSE /\ pc' = "Sending"
            /\ UNCHANGED result
    /\ UNCHANGED <<op, packet, expect, timeout, timeoutArg, t_start, clock>>
    /\ UNCHANGED axesVars

\* Line 79: read_raw raises e, which leaves querypacket.
read_raw_raises(e) ==
    /\ pc = "AwaitingResponse"
    /\ io' = Append(io, IOCall("read", <<>>, FALSE, Some(e)))
    /\ result' = ErrTransport(e)
    /\ pc' = "Done"
    /\ UNCHANGED <<op, packet, expect, timeout, timeoutArg, t_start, clock, resp>>
    /\ UNCHANGED axesVars

Expects == {None} \cup {Some(id) : id \in MessageIds}

EngineNext ==
    \/ Tick
    \/ \E p \in Packets : sendpacket(p)
    \/ \E p \in Packets, e \in TransportErrors : sendpacket_raises(p, e)
    \/ \E p \in Packets, e \in Expects, t \in TimeoutArgs : querypacket(p, e, t)
    \/ write_raw
    \/ \E e \in TransportErrors : write_raw_raises(e)
    \/ \E r \in Responses : read_raw(r)
    \/ \E e \in TransportErrors : read_raw_raises(e)


\* ------------------------------------------------------------------------
\* Axis collections
\* ------------------------------------------------------------------------
MaxAxes == 2      \* each sub-collection has 1..MaxAxes axes
MaxExtra == 1     \* a sequence argument is at most this much too long
MaxNum == 2       \* a raster asks for 0..MaxNum points along an axis

Coords == {0, 1}

Min(a, b) == IF a < b THEN a ELSE b
Filled(k, v) == [i \in 1..k |-> v]
Range(s) == {s[i] : i \in DOMAIN s}

RECURSIVE Product(_)
Product(s) == IF s = <<>> THEN 1 ELSE Head(s) * Product(Tail(s))

\* A sub-collection with k axes, as the composite's constructor receives it.
Leaf(k, pos, lim, unit) ==
    [ position |-> pos,
      limits |-> [i \in 1..k |-> <<0, lim * i>>],
      units |-> [i \in 1..k |-> unit] ]

\* The move of a sub-collection: it raises on a hardware failure and on a
\* position that does not have one entry per axis, and moves otherwise.
LeafMove(ac, pos, absolute, fails) ==
    IF fails THEN [ac |-> ac, error |-> Some("HardwareError")]
    ELSE IF Len(pos) # Len(ac.position) THEN [ac |-> ac, error |-> Some("LeafError")]
    ELSE [ ac |-> [ac EXCEPT !.position =
                      IF absolute THEN pos
                      ELSE [i \in 1..Len(pos) |-> ac.position[i] + pos[i]]],
           error |-> None ]

\* Whether a sub-collection's move keeps it inside the modelled coordinates.
InRange(ac) == \A i \in 1..Len(ac.position) : ac.position[i] \in Coords

\* A command a sub-collection received.
Call(target, cmd, args, absolute) ==
    [target |-> target, cmd |-> cmd, args |-> args, absolute |-> absolute]

NoRet ==
    [op |-> "none", args |-> <<>>, absolute |-> TRUE, error |-> None, value |-> <<>>,
     plan |-> <<>>]

\* No nested composite has been built.
NoNest == <<>>

AxesIdle ==
    /\ major_axes = Leaf(1, <<0>>, 10, "mm")
    /\ minor_axes = Leaf(1, <<0>>, 5, "deg")
    /\ n_major_axes = 1
    /\ n_minor_axes = 1
    /\ calls = <<>>
    /\ ret = NoRet
    /\ move_history = 0
    /\ nest = NoNest

\* PerpendicularAC.__init__(major_axes, minor_axes), lines 61-69.
AxesInit ==
    \E m \in 1..MaxAxes, n \in 1..MaxAxes :
      \E mp \in [1..m -> Coords], np \in [1..n -> Coords] :
        /\ major_axes = Leaf(m, mp, 10, "mm")
        /\ minor_axes = Leaf(n, np, 5, "deg")
        /\ n_major_axes = Len(mp)
        /\ n_minor_axes = Len(np)
        /\ calls = <<>>
        /\ ret = NoRet
        /\ move_history = 0
        /\ nest = NoNest

\* Python's s[:m] and s[m:].
Prefix(s, m) == SubSeq(s, 1, Min(m, Len(s)))
Suffix(s, m) == SubSeq(s, m + 1, Len(s))

\* Lines 97-98 of _move: the major and the minor positions.
major_pos(position) == Prefix(position, n_major_axes)
minor_pos(position) == Suffix(position, n_major_axes)

\* MoveCalls with the two moves issued in the other order.
MoveCalls_minor_first(position, absolute, majorOk) ==
    IF majorOk
    THEN << Call("minor", "move", minor_pos(position), absolute),
            Call("major", "move", major_pos(position), absolute) >>
    ELSE << Call("minor", "move", minor_pos(position), absolute) >>

\* The commands _move issues, lines 99-100: the major move, and the minor
\* move once the major move has returned.
MoveCalls(position, absolute, majorOk) ==
    IF majorOk
    THEN << Call("major", "move", major_pos(position), absolute),
            Call("minor", "move", minor_pos(position), absolute) >>
    ELSE << Call("major", "move", major_pos(position), absolute) >>

\* _move with a length check in front: a sequence of the wrong length is
\* refused before a sub-collection is commanded.
move_checked(position, absolute, majorFails, minorFails) ==
    LET mj == LeafMove(major_axes, major_pos(position), absolute, majorFails)
        mn == LeafMove(minor_axes, minor_pos(position), absolute, minorFails)
        bad == Len(position) # n_major_axes + n_minor_axes
    IN
    /\ InRange(mj.ac) /\ InRange(mn.ac)
    /\ major_axes' = IF bad THEN major_axes ELSE mj.ac
    /\ minor_axes' = IF ~bad /\ mj.error = None THEN mn.ac ELSE minor_axes
    /\ calls' = IF bad THEN <<>> ELSE MoveCalls(position, absolute, mj.error = None)
    /\ ret' = [NoRet EXCEPT !.op = "move", !.args = position, !.absolute = absolute,
                            !.error = IF bad THEN Some("UsageError")
                                      ELSE IF mj.error # None THEN mj.error ELSE mn.error]
    /\ UNCHANGED <<n_major_axes, n_minor_axes, move_history, nest>>
    /\ UNCHANGED engineVars

\* MoveOutcome with a recovery: when the minor move fails the major
\* collection is sent back to where it was.
MoveOutcome_rollback(major, minor, position, absolute, majorFails, minorFails) ==
    LET mj == LeafMove(major, major_pos(position), absolute, majorFails)
        mn == LeafMove(minor, minor_pos(position), absolute, minorFails)
        undo == mj.error = None /\ mn.error # None
    IN [ major |-> IF undo THEN major ELSE mj.ac,
         minor |-> IF mj.error = None THEN mn.ac ELSE minor,
         calls |-> MoveCalls(position, absolute, mj.error = None)
                      \o IF undo THEN << Call("major", "move", major.position, TRUE) >>
                         ELSE <<>>,
         error |-> IF mj.error # None THEN mj.error ELSE mn.error,
         inRange |-> InRange(mj.ac) /\ InRange(mn.ac) ]

\* What _move(position, absolute), lines 95-100, does to the sub-collections
\* major and minor: their new states, the commands issued and the error
\* that leaves the method, if any.
\* majorFails / minorFails: the hardware refuses that sub-collection's move.
MoveOutcome(major, minor, position, absolute, majorFails, minorFails) ==
    LET mj == LeafMove(major, major_pos(position), absolute, majorFails)
        mn == LeafMove(minor, minor_pos(position), absolute, minorFails)
    IN [ major |-> mj.ac,
         minor |-> IF mj.error = None THEN mn.ac ELSE minor,
         calls |-> MoveCalls(position, absolute, mj.error = None),
         error |-> IF mj.error # None THEN mj.error ELSE mn.error,
         inRange |-> InRange(mj.ac) /\ InRange(mn.ac) ]

\* _move storing the length of the major slice it was given as the major
\* axis count.
move_recounts(position, absolute, majorFails, minorFails) ==
    LET out == MoveOutcome(major_axes, minor_axes, position, absolute, majorFails, minorFails)
    IN
    /\ out.inRange
    /\ major_axes' = out.major
    /\ minor_axes' = out.minor
    /\ calls' = out.calls
    /\ ret' = [NoRet EXCEPT !.op = "move", !.args = position, !.absolute = absolute,
                            !.error = out.error]
    /\ n_major_axes' = Len(major_pos(position))
    /\ UNCHANGED <<n_minor_axes, move_history, nest>>
    /\ UNCHANGED engineVars

\* PerpendicularAC._move(position, absolute), lines 95-100.
move(position, absolute, majorFails, minorFails) ==
    LET out == MoveOutcome(major_axes, minor_axes, position, absolute, majorFails, minorFails)
    IN
    /\ out.inRange
    /\ major_axes' = out.major
    /\ minor_axes' = out.minor
    /\ calls' = out.calls
    /\ ret' = [NoRet EXCEPT !.op = "move", !.args = position, !.absolute = absolute,
                            !.error = out.error]
    /\ UNCHANGED <<n_major_axes, n_minor_axes, move_history, nest>>
    /\ UNCHANGED engineVars

\* limits with the minor collection's entries first.
limits_minor_first == minor_axes.limits \o major_axes.limits

\* The properties limits, position and units, lines 81-91.
limits == major_axes.limits \o minor_axes.limits

position == major_axes.position \o minor_axes.position
units == major_axes.units \o minor_axes.units

\* PerpendicularAC.__len__, lines 148-149.
len == n_major_axes + n_minor_axes

\* A caller reads one of the properties, or len().
read(what) ==
    /\ ret' = [NoRet EXCEPT !.op = what,
                            !.value = CASE what = "limits" -> limits
                                        [] what = "position" -> position
                                        [] what = "units" -> units
                                        [] what = "len" -> len]
    /\ calls' = <<>>
    /\ UNCHANGED <<major_axes, minor_axes, n_major_axes, n_minor_axes, move_history, nest>>
    /\ UNCHANGED engineVars

\* The caller has the outcome of the last operation and may call again.
return ==
    /\ ret # NoRet
    /\ ret' = NoRet
    /\ calls' = <<>>
    /\ UNCHANGED <<major_axes, minor_axes, n_major_axes, n_minor_axes, move_history, nest>>
    /\ UNCHANGED engineVars


\* ------------------------------------------------------------------------
\* PerpendicularAC._raster
\* ------------------------------------------------------------------------
\* np.linspace(a, b, num = k): k evenly spaced values from a to b.
linspace(a, b, k) ==
    [j \in 1..k |-> IF k = 1 THEN a ELSE a + ((j - 1) * (b - a)) \div (k - 1)]

\* Lines 116-118.
major_start(start) == Prefix(start, n_major_axes)
major_stop(stop) == Prefix(stop, n_major_axes)
major_num(num) == Prefix(num, n_major_axes)

\* Lines 120-122.
minor_start(start) == Suffix(start, n_major_axes)
minor_stop(stop) == Suffix(stop, n_major_axes)
minor_num(num) == Suffix(num, n_major_axes)

\* Lines 125-132: one linspace per major axis; izip stops at the shortest
\* of its four arguments.
major_axis_steps(start, stop, num) ==
    LET k == Min(Min(Len(major_start(start)), Len(major_stop(stop))),
                 Min(Len(major_num(num)), Len(major_axes.units)))
    IN [i \in 1..k |-> linspace(start[i], stop[i], num[i])]

\* np.array(np.meshgrid(*steps)).transpose() has shape
\* (N_k, ..., N_3, N_1, N_2, k): meshgrid's default 'xy' indexing swaps the
\* first two axes and transpose() reverses them all.  GridAxes(k) lists the
\* step axes from the slowest to the fastest varying one of the flattened
\* array.
GridAxes(k) ==
    IF k <= 2 THEN [i \in 1..k |-> i]
    ELSE [i \in 1..k |-> IF i <= k - 2 THEN k + 1 - i ELSE i - (k - 2)]

\* The index (from 0) along step axis GridAxes(k)[d] of flattened row r.
RECURSIVE Stride(_, _, _)
Stride(steps, order, d) ==
    IF d >= Len(order) THEN 1
    ELSE Len(steps[order[d + 1]]) * Stride(steps, order, d + 1)

GridIndex(steps, order, d, r) == (r \div Stride(steps, order, d)) % Len(steps[order[d]])

\* Line 136: the rows of the transposed mesh grid, flattened.
GridRows(steps) ==
    LET k == Len(steps)
        order == GridAxes(k)
        sizes == [i \in 1..k |-> Len(steps[i])]
        inv(a) == CHOOSE d \in 1..k : order[d] = a
    IN [r \in 1..Product(sizes) |->
          [a \in 1..k |-> steps[a][GridIndex(steps, order, inv(a), r - 1) + 1]]]

\* Line 137: reshape((np.prod(major_num), self._n_major_axes)) fails unless
\* the sizes agree.
ReshapeFits(steps, num) ==
    Len(steps) * Product([i \in 1..Len(steps) |-> Len(steps[i])])
        = Product(major_num(num)) * n_major_axes

\* Lines 136-137: the plan of major coordinates, one row per visit.  When
\* the reshape fits and there is a row, there is one step array per major
\* axis and a row of the grid is a row of the plan.
major_axes_grid(start, stop, num) ==
    LET steps == major_axis_steps(start, stop, num)
    IN IF Len(steps) = n_major_axes THEN GridRows(steps) ELSE <<>>

\* Lines 140-142: the loop body names self._major_axis and
\* self._minor_axis, attributes the object does not have (__init__ sets
\* _major_axes and _minor_axes): the first row raises AttributeError before
\* any command is issued.
RasterLoop(grid, start, stop, num, dwell_time) ==
    IF grid = <<>> THEN [calls |-> <<>>, error |-> None]
    ELSE [calls |-> <<>>, error |-> Some("AttributeError")]

\* PerpendicularAC._raster(start, stop, num, dwell_time), lines 113-142.
raster(start, stop, num, dwell_time) ==
    LET steps == major_axis_steps(start, stop, num)
        out == IF ReshapeFits(steps, num)
               THEN RasterLoop(major_axes_grid(start, stop, num), start, stop, num, dwell_time)
               ELSE [calls |-> <<>>, error |-> Some("ValueError")]
    IN
    /\ calls' = out.calls
    /\ ret' = [NoRet EXCEPT !.op = "raster", !.args = <<start, stop, num, dwell_time>>,
                            !.error = out.error,
                            !.plan = IF ReshapeFits(steps, num)
                                     THEN major_axes_grid(start, stop, num)
                                     ELSE <<>>]
    /\ UNCHANGED <<major_axes, minor_axes, n_major_axes, n_minor_axes, move_history, nest>>
    /\ UNCHANGED engineVars

\* ------------------------------------------------------------------------
\* PerpendicularAC._scan
\* ------------------------------------------------------------------------
MaxPoints == 2    \* a scan visits 0..MaxPoints points
MaxHistory == 2   \* the move history is followed up to this many entries

\* A notification hook of the collection firing: on_scan_start,
\* on_scan_step or on_scan_complete with its argument.
Notify(hook, arg) == [target |-> "self", cmd |-> hook, args |-> arg, absolute |-> TRUE]

RECURSIVE MinLen(_)
MinLen(ss) ==
    IF ss = <<>> THEN 0
    ELSE IF Len(ss) = 1 THEN Len(Head(ss))
    ELSE Min(Len(Head(ss)), MinLen(Tail(ss)))

\* Line 106: izip(*coords), one point per index all the sequences have.
Points(coords) == [j \in 1..MinLen(coords) |-> [a \in 1..Len(coords) |-> coords[a][j]]]

\* PointCalls with the step notification fired before the move.
PointCalls_step_first(moveCalls, coord, dwell_time) ==
    << Notify("on_scan_step", << <<coord>>, dwell_time >>) >> \o moveCalls

\* Lines 108-109: the move to a point, then the step notification.
PointCalls(moveCalls, coord, dwell_time) ==
    moveCalls \o << Notify("on_scan_step", << <<coord>>, dwell_time >>) >>

\* Lines 106-109: the loop from point i on.  st holds the sub-collections,
\* the commands and notifications so far and the error that ended the loop.
\* failAt / failSide: the hardware refuses that sub-collection's move at
\* that point (failAt = 0: at none).
RECURSIVE ScanLoop(_, _, _, _, _, _)
ScanLoop(st, pts, i, dwell_time, failAt, failSide) ==
    IF i > Len(pts) THEN st
    ELSE
        LET out == MoveOutcome(st.major, st.minor, pts[i], TRUE,
                               failAt = i /\ failSide = "major",
                               failAt = i /\ failSide = "minor")
        IN IF out.error # None
           THEN [ major |-> out.major, minor |-> out.minor,
                  calls |-> st.calls \o out.calls, error |-> out.error ]
           ELSE ScanLoop([ major |-> out.major, minor |-> out.minor,
                           calls |-> st.calls \o PointCalls(out.calls, pts[i], dwell_time),
                           error |-> None ],
                         pts, i + 1, dwell_time, failAt, failSide)

\* What _scan does, lines 102-111: the sub-collections afterwards, the
\* commands and notifications in order, and the error that left it.
ScanOutcome(coords, dwell_time, failAt, failSide) ==
    LET first == [ major |-> major_axes, minor |-> minor_axes,
                   calls |-> << Notify("on_scan_start", <<coords, dwell_time>>) >>,
                   error |-> None ]
        last == ScanLoop(first, Points(coords), 1, dwell_time, failAt, failSide)
    IN IF last.error # None THEN last
       ELSE [last EXCEPT !.calls = @ \o << Notify("on_scan_complete", <<coords, dwell_time>>) >>]

\* _scan going through the public move, which records every move in the
\* composite's history.
scan_public_move(coords, dwell_time, failAt, failSide) ==
    LET out == ScanOutcome(coords, dwell_time, failAt, failSide)
        moves == Cardinality({i \in DOMAIN out.calls : out.calls[i].target = "major"})
    IN
    /\ major_axes' = out.major
    /\ minor_axes' = out.minor
    /\ calls' = out.calls
    /\ ret' = [NoRet EXCEPT !.op = "scan", !.args = <<coords, dwell_time>>,
                            !.error = out.error]
    /\ move_history' = move_history + moves
    /\ UNCHANGED <<n_major_axes, n_minor_axes, nest>>
    /\ UNCHANGED engineVars

\* PerpendicularAC._scan(coords, dwell_time), lines 102-111.
scan(coords, dwell_time, failAt, failSide) ==
    LET out == ScanOutcome(coords, dwell_time, failAt, failSide)
    IN
    /\ major_axes' = out.major
    /\ minor_axes' = out.minor
    /\ calls' = out.calls
    /\ ret' = [NoRet EXCEPT !.op = "scan", !.args = <<coords, dwell_time>>,
                            !.error = out.error]
    /\ UNCHANGED <<n_major_axes, n_minor_axes, move_history, nest>>
    /\ UNCHANGED engineVars

\* AxisCollection.move(position, absolute), the public move the composite
\* inherits: it records the move in the history and calls _move.
public_move(pos, absolute, majorFails, minorFails) ==
    LET out == MoveOutcome(major_axes, minor_axes, pos, absolute, majorFails, minorFails)
    IN
    /\ out.inRange
    /\ move_history < MaxHistory
    /\ move_history' = move_history + 1
    /\ major_axes' = out.major
    /\ minor_axes' = out.minor
    /\ calls' = out.calls
    /\ ret' = [NoRet EXCEPT !.op = "AxisCollection.move", !.args = pos,
                            !.absolute = absolute, !.error = out.error]
    /\ UNCHANGED <<n_major_axes, n_minor_axes, nest>>
    /\ UNCHANGED engineVars

\* ------------------------------------------------------------------------
\* Nested composites
\* ------------------------------------------------------------------------
\* A collection is a leaf collection or a PerpendicularAC of two
\* collections; __init__ (lines 61-69) stores the two and their len().
NestLeaf(name, ac) == [kind |-> "leaf", name |-> name, ac |-> ac]

RECURSIVE TreeLen(_)
\* len(): a leaf's axis count, or __len__ (lines 148-149).
TreeLen(t) ==
    IF t.kind = "leaf" THEN Len(t.ac.position)
    ELSE t.n_major_axes + t.n_minor_axes

Perp(major, minor) ==
    [kind |-> "perp", major |-> major, minor |-> minor,
     n_major_axes |-> TreeLen(major), n_minor_axes |-> TreeLen(minor)]

RECURSIVE TreeRead(_, _)
\* The properties limits, position and units (lines 81-91) of a collection.
TreeRead(t, what) ==
    IF t.kind = "leaf" THEN t.ac[what]
    ELSE TreeRead(t.major, what) \o TreeRead(t.minor, what)

\* NestSplit cutting the position at the minor axis count.
NestSplit_at_minor(t, pos) == << Prefix(pos, t.n_minor_axes), Suffix(pos, t.n_minor_axes) >>

\* Lines 97-98: the positions of the major and of the minor collection.
NestSplit(t, pos) == << Prefix(pos, t.n_major_axes), Suffix(pos, t.n_major_axes) >>

RECURSIVE TreeMove(_, _, _, _)
\* move(pos, absolute) of a collection: a leaf moves (or fails, when it is
\* the leaf named failing); a composite runs _move (lines 95-100) on its
\* two collections.  calls lists the commands the leaves received.
TreeMove(t, pos, absolute, failing) ==
    IF t.kind = "leaf"
    THEN LET r == LeafMove(t.ac, pos, absolute, failing = t.name)
         IN [ tree |-> [t EXCEPT !.ac = r.ac],
              calls |-> << Call(t.name, "move", pos, absolute) >>,
              error |-> r.error ]
    ELSE LET parts == NestSplit(t, pos)
             mj == TreeMove(t.major, parts[1], absolute, failing)
             mn == TreeMove(t.minor, parts[2], absolute, failing)
         IN IF mj.error # None
            THEN [ tree |-> [t EXCEPT !.major = mj.tree],
                   calls |-> mj.calls,
                   error |-> mj.error ]
            ELSE [ tree |-> [t EXCEPT !.major = mj.tree, !.minor = mn.tree],
                   calls |-> mj.calls \o mn.calls,
                   error |-> mn.error ]

\* The two ways of nesting the leaf collections A, B and C.
Nestings(A, B, C) ==
    [ left |-> Perp(Perp(NestLeaf("A", A), NestLeaf("B", B)), NestLeaf("C", C)),
      right |-> Perp(NestLeaf("A", A), Perp(NestLeaf("B", B), NestLeaf("C", C))),
      leftCalls |-> <<>>, rightCalls |-> <<>>,
      leftError |-> None, rightError |-> None ]

NestInit ==
    \E a \in 1..MaxAxes, b \in 1..MaxAxes, c \in 1..MaxAxes :
        /\ nest = Nestings(Leaf(a, Filled(a, 0), 10, "mm"),
                           Leaf(b, Filled(b, 0), 5, "deg"),
                           Leaf(c, Filled(c, 0), 3, "um"))
        /\ major_axes = Leaf(1, <<0>>, 10, "mm")
        /\ minor_axes = Leaf(1, <<0>>, 5, "deg")
        /\ n_major_axes = 1
        /\ n_minor_axes = 1
        /\ calls = <<>>
        /\ ret = NoRet
        /\ move_history = 0

\* The positions of the modelled nestings stay within 0..(axis count + 1).
NestInRange(t) ==
    \A x \in Range(TreeRead(t, "position")) : x \in 0..(TreeLen(t) + 1)

\* The same move on both nestings.
nest_move(pos, absolute, failing) ==
    LET l == TreeMove(nest.left, pos, absolute, failing)
        r == TreeMove(nest.right, pos, absolute, failing)
    IN
    /\ NestInRange(l.tree) /\ NestInRange(r.tree)
    /\ nest' = [ left |-> l.tree, right |-> r.tree,
                 leftCalls |-> l.calls, rightCalls |-> r.calls,
                 leftError |-> l.error, rightError |-> r.error ]
    /\ ret' = [NoRet EXCEPT !.op = "nest_move", !.args = pos, !.absolute = absolute,
                            !.error = l.error]
    /\ UNCHANGED <<major_axes, minor_axes, n_major_axes, n_minor_axes, calls, move_history>>
    /\ UNCHANGED engineVars

\* The same property, or len(), read from both nestings.
nest_read(what) ==
    /\ ret' = [NoRet EXCEPT !.op = "nest_read", !.args = what,
                            !.value = IF what = "len"
                                      THEN << TreeLen(nest.left), TreeLen(nest.right) >>
                                      ELSE << TreeRead(nest.left, what),
                                              TreeRead(nest.right, what) >>]
    /\ UNCHANGED <<major_axes, minor_axes, n_major_axes, n_minor_axes, calls, move_history,
                   nest>>
    /\ UNCHANGED engineVars

\* ------------------------------------------------------------------------
\* Arguments the callers pass
\* ------------------------------------------------------------------------
SeqsUpTo(S, n) == UNION {[1..k -> S] : k \in 0..n}

MoveArgs == SeqsUpTo(Coords, len + MaxExtra)

\* The point counts of a raster: 0..MaxNum along a major axis and MaxNum
\* along every other one.
RasterNums ==
    UNION { { [i \in 1..k |-> IF i <= Len(mj) THEN mj[i] ELSE MaxNum] :
                mj \in [1..Min(k, n_major_axes) -> 0..MaxNum] } :
            k \in 0..(len + MaxExtra) }

\* Which sub-collection's hardware fails during the call.
Failures == {"none", "major", "minor"}

\* The caller calls the composite when it has the outcome of its last call.
CallMove ==
    /\ ret = NoRet
    /\ \E p \in MoveArgs, a \in BOOLEAN, f \in Failures : move(p, a, f = "major", f = "minor")

\* A raster from 0 to MaxNum along every axis.
CallRaster ==
    /\ ret = NoRet
    /\ \E num \in RasterNums, d \in {None, Some(1)} :
          raster(Filled(Len(num), 0), Filled(Len(num), MaxNum), num, d)

CallRead ==
    /\ ret = NoRet
    /\ \E what \in {"limits", "position", "units", "len"} : read(what)

AxesNext ==
    \/ CallMove
    \/ CallRaster
    \/ CallRead
    \/ return

\* The points a scan visits: all axes at 0, or the axes alternating
\* between 0 and 1.
ScanPoint(i) == IF i = 0 THEN Filled(len, 0) ELSE [a \in 1..len |-> (a + i) % 2]

\* The scans: up to MaxPoints points, taken in turn from the three above.
ScanPaths ==
    UNION { { [j \in 1..k |-> ScanPoint((s + j) % 3)] : s \in 0..2 } : k \in 0..MaxPoints }

\* The per-axis sequences that visit the points pts in order.
CoordsOf(pts) == [a \in 1..len |-> [j \in 1..Len(pts) |-> pts[j][a]]]

CallScan ==
    /\ ret = NoRet
    /\ \E pts \in ScanPaths, d \in {None, Some(1)} :
         \E failAt \in 0..Len(pts), failSide \in {"major", "minor"} :
            scan(CoordsOf(pts), d, failAt, failSide)

CallPublicMove ==
    /\ ret = NoRet
    /\ \E i \in 0..2, a \in BOOLEAN, f \in Failures :
          public_move(ScanPoint(i), a, f = "major", f = "minor")

ScanNext ==
    \/ CallScan
    \/ CallPublicMove
    \/ return

\* Every operation of the composite.
CompositeNext ==
    \/ AxesNext
    \/ CallScan

\* Moves of the right length to the positions (1, 2, ...) and (2, 3, ...),
\* with no leaf or one of the leaves failing.
CallNestMove ==
    /\ ret = NoRet
    /\ \E k \in 0..1, a \in BOOLEAN, f \in {"none", "A", "B", "C"} :
          nest_move([i \in 1..TreeLen(nest.left) |-> i + k], a, f)

CallNestRead ==
    /\ ret = NoRet
    /\ \E what \in {"limits", "position", "units", "len"} : nest_read(what)

NestNext ==
    \/ CallNestMove
    \/ CallNestRead
    \/ return

\* A composite with up to MaxPlanAxes major axes and one minor axis, all at
\* position 0.
MaxPlanAxes == 3

PlanInit ==
    \E m \in 1..MaxPlanAxes :
        /\ major_axes = Leaf(m, Filled(m, 0), 10, "mm")
        /\ minor_axes = Leaf(1, <<0>>, 5, "deg")
        /\ n_major_axes = m
        /\ n_minor_axes = 1
        /\ calls = <<>>
        /\ ret = NoRet
        /\ move_history = 0
        /\ nest = NoNest

\* A raster of the right length with 0..MaxNum points along every major
\* axis and one along the minor axis, from 0 or 1 to MaxNum.
CallPlan ==
    /\ ret = NoRet
    /\ \E mj \in [1..n_major_axes -> 0..MaxNum], a \in Coords, d \in {None, Some(1)} :
          raster(Filled(len, a), Filled(len, MaxNum), mj \o <<1>>, d)

PlanNext ==
    \/ CallPlan
    \/ return

\* ------------------------------------------------------------------------
\* Specifications
\* ------------------------------------------------------------------------
Init == EngineIdle /\ AxesIdle
Next == EngineNext
Spec == Init /\ [][Next]_vars

AxesStart == EngineIdle /\ AxesInit
AxesSpec == AxesStart /\ [][AxesNext]_vars

\* The thread that runs querypacket keeps running: a call of write_raw or
\* read_raw that has been made returns or raises.
FairSpec ==
    /\ Spec
    /\ WF_vars(write_raw \/ \E e \in TransportErrors : write_raw_raises(e))
    /\ WF_vars((\E r \in Responses : read_raw(r))
                  \/ \E e \in TransportErrors : read_raw_raises(e))

CompositeSpec == AxesStart /\ [][CompositeNext]_vars

NestStart == EngineIdle /\ NestInit
NestSpec == NestStart /\ [][NestNext]_vars

PlanStart == EngineIdle /\ PlanInit
PlanSpec == PlanStart /\ [][PlanNext]_vars

ScanSpec == AxesStart /\ [][ScanNext]_vars


\* ------------------------------------------------------------------------
\* Properties of sendpacket and querypacket
\* ------------------------------------------------------------------------
Writes == {i \in DOMAIN io : io[i].op = "write"}
Reads == {i \in DOMAIN io : io[i].op = "read"}
NoTransportError == \A i \in DOMAIN io : io[i].ok
QueryDone == op = "querypacket" /\ pc = "Done"

\* The message identifier in the first two bytes of a frame.
IdOf(bytes) == bytes[1] + 256 * bytes[2]

\* C1: once a non-empty response with message identifier X has been read,
\* querypacket returns the deserialized packet when expect is None or X, and
\* fails with the mismatch error carrying X and expect, returning no packet,
\* when expect is another identifier.
C1_Matching ==
    (QueryDone /\ resp # <<>>) =>
        LET X == IdOf(resp) IN
        /\ (expect = None \/ expect = Some(X)) =>
              /\ result.kind = "packet"
              /\ result.pkt # None
              /\ Pack(result.pkt[1]) = resp
        /\ (expect # None /\ expect # Some(X)) =>
              /\ result.kind = "IOError_mismatch"
              /\ result.got = Some(X)
              /\ result.expected = expect
              /\ result.pkt = None

C1_Witness ==
    /\ QueryDone /\ resp # <<>>
    /\ expect = Some(0) /\ IdOf(resp) = 261
    /\ result.kind = "IOError_mismatch"

\* C2: when the loop ends without a non-empty response, querypacket returns
\* None if no identifier was expected and fails with the error naming the
\* expected identifier if one was (0 included); unpack is not attempted.
C2_NoResponse ==
    (QueryDone /\ NoTransportError /\ resp = <<>>) =>
        /\ expect = None => result.kind = "None"
        /\ expect # None => (result.kind = "IOError_nothing" /\ result.expected = expect)
        /\ ~result.unpacked
        /\ result.pkt = None

C2_Witness ==
    /\ QueryDone /\ NoTransportError /\ resp = <<>>
    /\ expect = Some(0)
    /\ result.kind = "IOError_nothing"

\* The timeout argument in seconds, for a number or a quantity.
Seconds(t) == IF t.kind = "quantity" THEN t.mag \div 1000 ELSE t.mag
FiniteTimeout == timeoutArg.kind \in {"number", "quantity"}
SilentTransport == NoTransportError /\ \A i \in Reads : io[i].bytes = <<>>
AfterExpiry(S) == {i \in S : io[i].at > t_start + Seconds(timeoutArg)}

\* C3: with a finite timeout of T seconds and a transport that only reads
\* empty, querypacket is not Done while the time since its start is <= T,
\* and it writes and reads at most once after the clock has passed
\* t_start + T.
C3_TimeoutCorrect ==
    (op = "querypacket" /\ FiniteTimeout /\ SilentTransport) =>
        /\ pc = "Done" => clock - t_start > Seconds(timeoutArg)
        /\ Cardinality(AfterExpiry(Writes)) <= 1
        /\ Cardinality(AfterExpiry(Reads)) <= 1
        /\ (pc = "Sending" /\ io # <<>>) => io[Len(io)].at <= t_start + Seconds(timeoutArg)

C3_Witness ==
    /\ QueryDone /\ SilentTransport
    /\ timeoutArg = Quantity(1000, "ms")
    /\ Cardinality(Writes) >= 2
    /\ Cardinality(AfterExpiry(Writes)) = 1
    /\ result.kind = "None"

\* C4: with timeout = False the elapsed-time check is off: querypacket
\* leaves its loop only after a non-empty response has been read.
C4_WaitsIndefinitely ==
    (QueryDone /\ timeoutArg = TimeoutFalse /\ NoTransportError) => resp # <<>>

\* C5: with timeout = None querypacket writes once and reads once whatever
\* the clock does; an empty first read ends the call (None, or the error
\* naming expect) and the loop never goes round.
C5_InheritDefault ==
    (op = "querypacket" /\ timeoutArg = TimeoutNone) =>
        /\ Cardinality(Writes) <= 1
        /\ Cardinality(Reads) <= 1
        /\ (pc = "Done" /\ NoTransportError) =>
              (Cardinality(Writes) = 1 /\ Cardinality(Reads) = 1)
        /\ pc = "Sending" => io = <<>>
        /\ (pc = "Done" /\ NoTransportError /\ resp = <<>>) =>
              result.kind \in {"None", "IOError_nothing"}

C5_Witness ==
    /\ QueryDone /\ timeoutArg = TimeoutNone
    /\ NoTransportError /\ resp = <<>>
    /\ clock = t_start
    /\ Len(io) = 2

\* C6: a failing write_raw or read_raw ends querypacket at once: it is the
\* last transport call made, and the caller gets the transport's error
\* itself, not None and not a communication error.
C6_TransportErrorPropagates ==
    op = "querypacket" =>
        \A i \in DOMAIN io :
            ~io[i].ok =>
                /\ i = Len(io)
                /\ pc = "Done"
                /\ result.kind = "transport_error"
                /\ result.err = io[i].err

C6_Witness ==
    /\ op = "querypacket"
    /\ Len(io) >= 4
    /\ io[Len(io)].op = "read"
    /\ ~io[Len(io)].ok
    /\ result.kind = "transport_error"

MajorThenMinor(v, a, b) ==
    /\ Len(v) = Len(a) + Len(b)
    /\ \A i \in 1..Len(a) : v[i] = a[i]
    /\ \A j \in 1..Len(b) : v[Len(a) + j] = b[j]

\* The entries s[a+1..b] of s that exist.
Entries(s, a, b) == [i \in 1..(Min(b, Len(s)) - Min(a, Len(s))) |-> s[a + i]]

\* C8: position, limits and units of the composite are the major
\* collection's current value followed by the minor collection's, and the
\* composite's axis count is the sum of the two counts.
C8_Aggregation ==
    /\ ret.op = "position" =>
          MajorThenMinor(ret.value, major_axes.position, minor_axes.position)
    /\ ret.op = "limits" => MajorThenMinor(ret.value, major_axes.limits, minor_axes.limits)
    /\ ret.op = "units" => MajorThenMinor(ret.value, major_axes.units, minor_axes.units)
    /\ ret.op = "len" => ret.value = Len(major_axes.position) + Len(minor_axes.position)
    /\ ret.op \in {"position", "limits", "units"} =>
          Len(ret.value) = Len(major_axes.position) + Len(minor_axes.position)

C8_Witness ==
    /\ ret.op = "limits"
    /\ Len(major_axes.position) = 2 /\ Len(minor_axes.position) = 1
    /\ ret.value = << <<0, 10>>, <<0, 20>> , <<0, 5>> >>

\* C9: a composite move with m + n entries commands the major collection
\* once with the first m entries and then the minor collection once with
\* the other n, both with the caller's absolute flag; the minor move is
\* issued only after the major move has returned.
C9_MoveSplit ==
    (ret.op = "move" /\ Len(ret.args) = n_major_axes + n_minor_axes) =>
        /\ Len(calls) \in {1, 2}
        /\ calls[1] = Call("major", "move", Entries(ret.args, 0, n_major_axes), ret.absolute)
        /\ Len(calls) = 2 =>
              calls[2] = Call("minor", "move",
                              Entries(ret.args, n_major_axes, Len(ret.args)), ret.absolute)
        /\ ret.error = None =>
              /\ Len(calls) = 2
              /\ Len(calls[1].args) = n_major_axes
              /\ Len(calls[2].args) = n_minor_axes

C9_Witness ==
    /\ ret.op = "move" /\ ret.error = None /\ ~ret.absolute
    /\ ret.args = <<1, 0, 1>>
    /\ calls = << Call("major", "move", <<1, 0>>, FALSE), Call("minor", "move", <<1>>, FALSE) >>

\* The length of the coordinate sequences of the last move or raster.
ArgLen == IF ret.op = "raster" THEN Len(ret.args[1]) ELSE Len(ret.args)
WrongLength == ret.op \in {"move", "raster"} /\ ArgLen # n_major_axes + n_minor_axes

\* C10 as stated: a move or raster with sequences of the wrong length
\* raises an error and no sub-collection has received a command.
C10_MismatchRejected ==
    WrongLength => (ret.error # None /\ calls = <<>>)

\* C10 as the code has it: neither _move nor _raster checks the length.
\* A move of the wrong length still commands the major collection with
\* position[:m] and, once that has returned, the minor collection with
\* position[m:]; the only errors are those of the sub-collections.  A raster of the
\* wrong length commands no sub-collection and ends as numpy and the loop
\* make it end: ValueError from reshape for fewer than m entries with
\* non-zero point counts, a normal return for an empty plan, and
\* AttributeError at the first row otherwise.
C10_NoLengthCheck ==
    /\ (WrongLength /\ ret.op = "move") =>
          /\ Len(calls) \in {1, 2}
          /\ calls[1] = Call("major", "move", Entries(ret.args, 0, n_major_axes), ret.absolute)
          /\ Len(calls) = 2 =>
                calls[2] = Call("minor", "move",
                                Entries(ret.args, n_major_axes, Len(ret.args)), ret.absolute)
          /\ ret.error \in {None, Some("LeafError"), Some("HardwareError")}
    /\ (WrongLength /\ ret.op = "raster") =>
          LET num == ret.args[3]
              points == Product(Entries(num, 0, n_major_axes))
          IN /\ calls = <<>>
             /\ ret.error = IF ArgLen < n_major_axes /\ points # 0 THEN Some("ValueError")
                            ELSE IF points = 0 THEN None
                            ELSE Some("AttributeError")

C10_Witness ==
    /\ ret.op = "move" /\ ret.absolute
    /\ n_major_axes = 2 /\ n_minor_axes = 1
    /\ ret.args = <<1, 1, 0, 1>>
    /\ ret.error = Some("LeafError")
    /\ Len(calls) = 2
    /\ major_axes.position = <<1, 1>>

\* ------------------------------------------------------------------------
\* Properties of the composite scan
\* ------------------------------------------------------------------------
\* The coordinates, the dwell time and the points of the last scan.
ScanCoords == ret.args[1]
ScanDwell == ret.args[2]
ScanPts ==
    [j \in 1..Len(ScanCoords[1]) |-> [a \in 1..Len(ScanCoords) |-> ScanCoords[a][j]]]
IsHook(c, hook) == c.target = "self" /\ c.cmd = hook

\* C11: a scan over k points fires on_scan_start once and first, then for
\* every point in input order moves to the point and fires on_scan_step
\* for it, then fires on_scan_complete once and last.  (A scan that a
\* failing move ends fires start, the steps of the points reached and no
\* complete.)
C11_ScanSequence ==
    ret.op = "scan" =>
        LET k == Len(ScanPts)
            n == Len(calls)
        IN
        /\ n >= 1
        /\ calls[1] = Notify("on_scan_start", <<ScanCoords, ScanDwell>>)
        /\ \A i \in 2..n : ~IsHook(calls[i], "on_scan_start")
        /\ \A i \in 1..(n - 1) : ~IsHook(calls[i], "on_scan_complete")
        /\ \A j \in 1..n :
              IsHook(calls[j], "on_scan_step") =>
                  /\ j >= 4
                  /\ calls[j - 2].cmd = "move" /\ calls[j - 1].cmd = "move"
                  /\ calls[j - 2].args \o calls[j - 1].args = calls[j].args[1][1]
        /\ ret.error = None =>
              /\ n = 3 * k + 2
              /\ calls[n] = Notify("on_scan_complete", <<ScanCoords, ScanDwell>>)
              /\ \A i \in 1..k :
                    calls[3 * i + 1] = Notify("on_scan_step", << <<ScanPts[i]>>, ScanDwell >>)
        /\ ret.error # None => ~IsHook(calls[n], "on_scan_complete")

C11_Witness ==
    /\ ret.op = "scan" /\ ret.error = None
    /\ Len(ScanPts) = 2
    /\ ScanPts[1] # ScanPts[2]
    /\ Len(calls) = 8
    /\ IsHook(calls[4], "on_scan_step") /\ IsHook(calls[7], "on_scan_step")

\* C20: in a scan every point is one absolute move of the major
\* collection to the point's first m entries followed by one absolute move
\* of the minor collection to the others; the sub-collections get no other
\* command (no scan, no raster), and the composite's move history gains no
\* entry.
C20_ScanCommands ==
    ret.op = "scan" =>
        LET sub == SelectSeq(calls, LAMBDA c : c.target \in {"major", "minor"})
            k == Len(ScanPts)
        IN
        /\ \A i \in 1..Len(sub) : sub[i].cmd = "move" /\ sub[i].absolute
        /\ Len(sub) <= 2 * k
        /\ \A i \in 1..Len(sub) :
              sub[i] = IF i % 2 = 1
                       THEN Call("major", "move",
                                 Entries(ScanPts[(i + 1) \div 2], 0, n_major_axes), TRUE)
                       ELSE Call("minor", "move",
                                 Entries(ScanPts[i \div 2], n_major_axes,
                                         n_major_axes + n_minor_axes), TRUE)
        /\ ret.error = None => Len(sub) = 2 * k

C20_ScanKeepsHistory ==
    /\ []C20_ScanCommands
    /\ [][(ret.op = "none" /\ ret'.op = "scan") => move_history' = move_history]_vars

C20_Witness ==
    /\ ret.op = "scan" /\ ret.error = None
    /\ Len(ScanPts) = 2
    /\ move_history = 1
    /\ n_major_axes = 2 /\ n_minor_axes = 1

\* ------------------------------------------------------------------------
\* Properties of the composite raster
\* ------------------------------------------------------------------------
\* The arguments of the last raster.
RasterStart == ret.args[1]
RasterStop == ret.args[2]
RasterNum == ret.args[3]
RasterDwell == ret.args[4]
FullRaster == ret.op = "raster" /\ ArgLen = n_major_axes + n_minor_axes

\* C12: a raster whose major point counts multiply to P completes
\* without error after exactly P moves of the major collection, each
\* immediately followed by one raster of the minor collection over the
\* minor slices of start, stop and num with the caller's dwell time.
C12_MajorMovesThenMinorRasters ==
    FullRaster =>
        LET P == Product(Prefix(RasterNum, n_major_axes)) IN
        /\ ret.error = None
        /\ Len(calls) = 2 * P
        /\ \A i \in 1..P :
              /\ calls[2 * i - 1].target = "major" /\ calls[2 * i - 1].cmd = "move"
              /\ calls[2 * i].target = "minor" /\ calls[2 * i].cmd = "raster"
              /\ calls[2 * i].args = << Suffix(RasterStart, n_major_axes),
                                        Suffix(RasterStop, n_major_axes),
                                        Suffix(RasterNum, n_major_axes),
                                        RasterDwell >>

\* The steps along the major axes of the last raster, and the rows that
\* list every combination of them with the first axis varying slowest and
\* the last fastest.
RasterSteps ==
    [a \in 1..n_major_axes |-> linspace(RasterStart[a], RasterStop[a], RasterNum[a])]

RECURSIVE Faster(_, _)
Faster(steps, a) ==
    IF a >= Len(steps) THEN 1 ELSE Len(steps[a + 1]) * Faster(steps, a + 1)

FirstAxisSlowest(steps) ==
    [r \in 1..Product([a \in 1..Len(steps) |-> Len(steps[a])]) |->
        [a \in 1..Len(steps) |->
            steps[a][(((r - 1) \div Faster(steps, a)) % Len(steps[a])) + 1]]]

\* C13: for any number of major axes and any point counts the plan a
\* raster builds lists every combination of the per-axis steps exactly
\* once, each row in axis order, with the first major axis varying slowest
\* and the last varying fastest.
C13_PlanFirstAxisSlowest ==
    FullRaster => ret.plan = FirstAxisSlowest(RasterSteps)

\* ------------------------------------------------------------------------
\* Properties of the querypacket loop
\* ------------------------------------------------------------------------
\* The reads that returned a response.
Answers == {i \in Reads : io[i].ok /\ io[i].bytes # <<>>}
EmptyReads == {i \in Reads : io[i].ok /\ io[i].bytes = <<>>}

\* C14: whatever the timeout, querypacket stops at the first non-empty
\* read: that read is the last call on the transport, and the packet that
\* is unpacked and compared with expect is the one it returned.
C14_StopsAtFirstResponse ==
    op = "querypacket" =>
        \A i \in Answers :
            /\ i = Len(io)
            /\ pc = "Done"
            /\ resp = io[i].bytes
            /\ result.unpacked
            /\ result.kind \in {"packet", "IOError_mismatch"}
            /\ result.kind = "packet" => result.pkt = Some(Unpack(io[i].bytes))
            /\ result.kind = "IOError_mismatch" =>
                  (result.got = Some(IdOf(io[i].bytes)) /\ result.expected = expect)

C14_Witness ==
    /\ QueryDone
    /\ timeoutArg = Number(2)
    /\ clock = t_start
    /\ Len(io) = 4
    /\ Answers = {4}
    /\ result.kind = "packet"

\* C15: in a querypacket without transport failure the calls on the
\* transport are write, read, write, read, ...; every write carries
\* pack(packet); once the call is over there are as many writes as reads
\* and at least one, so that after j empty reads the request has been
\* written j + 1 times when the call ended on a response and j times when
\* it ended on an empty read.
C15_WritesReadsAlternate ==
    op = "querypacket" =>
        /\ \A i \in DOMAIN io : io[i].op = IF i % 2 = 1 THEN "write" ELSE "read"
        /\ \A i \in Writes : io[i].bytes = Pack(packet)
        /\ pc = "Sending" => Len(io) % 2 = 0
        /\ pc = "AwaitingResponse" => Len(io) % 2 = 1
        /\ (pc = "Done" /\ NoTransportError) =>
              /\ Cardinality(Writes) = Cardinality(Reads)
              /\ Cardinality(Writes) >= 1
              /\ Cardinality(Writes) =
                    IF resp # <<>> THEN Cardinality(EmptyReads) + 1
                    ELSE Cardinality(EmptyReads)

C15_Witness ==
    /\ QueryDone /\ NoTransportError
    /\ Cardinality(EmptyReads) = 2
    /\ Cardinality(Writes) = 3
    /\ resp # <<>>

\* The clock has passed t_start + timeout and the loop has room for its
\* last turn.
TimeIsUp ==
    /\ op = "querypacket" /\ FiniteTimeout
    /\ clock > t_start + Seconds(timeoutArg)
    /\ Len(io) + 2 <= MaxIO

\* The loop going round: from the read back to the write.
LoopsAgain == pc = "AwaitingResponse" /\ pc' = "Sending"

\* C16: with a finite numeric timeout (0 included), once the clock has
\* passed t_start + timeout querypacket reaches Done whatever the transport
\* returns; and the loop goes round only after an empty read made while the
\* elapsed time was still <= timeout.
C16_FiniteTimeoutTerminates ==
    /\ TimeIsUp ~> (pc = "Done")
    /\ [][(LoopsAgain /\ FiniteTimeout) =>
            /\ io'[Len(io')].op = "read" /\ io'[Len(io')].bytes = <<>>
            /\ clock - t_start <= Seconds(timeoutArg)]_vars

C16_Witness ==
    /\ QueryDone /\ SilentTransport
    /\ timeoutArg = Number(0)
    /\ Len(io) = 4
    /\ io[2].at = t_start
    /\ io[4].at > t_start

\* ------------------------------------------------------------------------
\* Properties of a failing move
\* ------------------------------------------------------------------------
\* The position p asked of a collection that was at old.
Target(old, p, absolute) ==
    IF absolute THEN p ELSE [i \in 1..Len(p) |-> old[i] + p[i]]

\* A composite move returns in this step.
MoveReturns == ret.op = "none" /\ ret'.op = "move"

\* C17: a composite move that fails has either commanded the major
\* collection only, which failed (the minor collection is neither
\* commanded nor moved and the major collection gets no second command),
\* or commanded the major and then the minor collection, which failed
\* (the major collection is at its new position and gets no further
\* command); the error reaches the caller in both cases.
C17_NoRecovery ==
    [][(MoveReturns /\ ret'.error # None) =>
          \/ /\ calls' = << Call("major", "move", major_pos(ret'.args), ret'.absolute) >>
             /\ major_axes' = major_axes
             /\ minor_axes' = minor_axes
          \/ /\ calls' = << Call("major", "move", major_pos(ret'.args), ret'.absolute),
                            Call("minor", "move", minor_pos(ret'.args), ret'.absolute) >>
             /\ major_axes'.position =
                   Target(major_axes.position, major_pos(ret'.args), ret'.absolute)
             /\ minor_axes' = minor_axes]_vars

C17_Witness ==
    /\ ret.op = "move" /\ ret.absolute
    /\ ret.error = Some("HardwareError")
    /\ Len(ret.args) = n_major_axes + n_minor_axes
    /\ Len(calls) = 2
    /\ major_axes.position = major_pos(ret.args)
    /\ minor_axes.position # minor_pos(ret.args)

\* ------------------------------------------------------------------------
\* Properties of the axis counts
\* ------------------------------------------------------------------------
\* C18: the stored major and minor axis counts are those of the
\* sub-collections given to the constructor and no operation (move, scan,
\* raster, the property reads) changes them, so the composite's axis
\* count is the sum of its parts' axis counts in every state.
C18_CountsFixed ==
    /\ [](/\ n_major_axes = Len(major_axes.position)
          /\ n_minor_axes = Len(minor_axes.position)
          /\ len = Len(major_axes.position) + Len(minor_axes.position))
    /\ [][n_major_axes' = n_major_axes /\ n_minor_axes' = n_minor_axes]_vars

C18_Witness ==
    /\ ret.op = "move"
    /\ Len(ret.args) < n_major_axes
    /\ ret.error # None
    /\ n_major_axes = 2 /\ n_minor_axes = 1
    /\ Len(major_axes.position) = 2
    /\ major_axes.position # <<0, 0>> /\ minor_axes.position # <<0>>

\* ------------------------------------------------------------------------
\* Properties of nested composites
\* ------------------------------------------------------------------------
\* The leaf collections of the two nestings.
LeftA == nest.left.major.major.ac
LeftB == nest.left.major.minor.ac
LeftC == nest.left.minor.ac
RightA == nest.right.major.ac
RightB == nest.right.minor.major.ac
RightC == nest.right.minor.minor.ac

\* The commands a move to p sends to A, B and C, in that order.
LeafCommands(p, absolute) ==
    LET a == Len(LeftA.position)
        b == Len(LeftB.position)
        c == Len(LeftC.position)
    IN << Call("A", "move", Entries(p, 0, a), absolute),
          Call("B", "move", Entries(p, a, a + b), absolute),
          Call("C", "move", Entries(p, a + b, a + b + c), absolute) >>

\* C19: Composite(Composite(A, B), C) and Composite(A, Composite(B, C))
\* both have a + b + c axes and report the same position, limits and units
\* (A's entries, then B's, then C's), and a move of length a + b + c on
\* either commands A with the first a entries, then B with the next b,
\* then C with the last c (up to the first leaf that fails).
C19_NestingsAgree ==
    LET n == Len(LeftA.position) + Len(LeftB.position) + Len(LeftC.position) IN
    /\ TreeLen(nest.left) = n /\ TreeLen(nest.right) = n
    /\ \A what \in {"position", "limits", "units"} :
          /\ TreeRead(nest.left, what) = LeftA[what] \o LeftB[what] \o LeftC[what]
          /\ TreeRead(nest.right, what) = RightA[what] \o RightB[what] \o RightC[what]
          /\ TreeRead(nest.left, what) = TreeRead(nest.right, what)
    /\ ret.op = "nest_read" =>
          /\ ret.value[1] = ret.value[2]
          /\ ret.args = "len" => ret.value[1] = n
          /\ ret.args # "len" => Len(ret.value[1]) = n
    /\ ret.op = "nest_move" =>
          LET full == LeafCommands(ret.args, ret.absolute)
              k == Len(nest.leftCalls)
          IN
          /\ nest.leftCalls = nest.rightCalls
          /\ nest.leftError = nest.rightError
          /\ k \in 1..3
          /\ nest.leftCalls = SubSeq(full, 1, k)
          /\ ret.error = None => k = 3

C19_Witness ==
    /\ ret.op = "nest_move" /\ ret.error = None /\ ret.absolute
    /\ Len(LeftA.position) = 1 /\ Len(LeftB.position) = 2 /\ Len(LeftC.position) = 2
    /\ ret.args = <<1, 2, 3, 4, 5>>
    /\ nest.rightCalls = << Call("A", "move", <<1>>, TRUE),
                            Call("B", "move", <<2, 3>>, TRUE),
                            Call("C", "move", <<4, 5>>, TRUE) >>
    /\ TreeRead(nest.left, "position") = <<1, 2, 3, 4, 5>>
    /\ TreeRead(nest.right, "position") = <<1, 2, 3, 4, 5>>

=============================================================================
